---- MODULE Spec2Model ----
(***************************************************************************)
(* flac2alac.py: batch conversion of FLAC files to ALAC (.m4a) through an  *)
(* external encoder.  The model covers main (argument handling, encoder    *)
(* detection, input collection, dispatch, report, exit status) and         *)
(* convert_one (planning, skip check, dry run, encoder subprocess,         *)
(* verification by PCM digests, deletion of the original).                 *)
(*                                                                         *)
(* A string of the program is a string here; Spell gives the characters of *)
(* every string the model uses, so that str.lower, str.startswith,         *)
(* str.strip, Path.suffix, Path.with_suffix and the ordering of paths are  *)
(* computed from the characters, not assumed.  The messages of the program *)
(* are Japanese; the model keeps their ASCII prefixes ("skip: ",           *)
(* "dry-run: ", "ok", "verify") and writes the rest in English.            *)
(***************************************************************************)
EXTENDS Integers, Sequences, FiniteSets, TLC

----------------------------------------------------------------------------
(* Bounds of the model *)

\* worker counts 1..MaxWorkers are explored (-w / --workers)
MaxWorkers == 2

\* the time of every write of a run; the files found at its start have
\* modification times 0 and 1
Now == 2

----------------------------------------------------------------------------
(* Strings *)

Spell ==
  ("cwd" :> <<"c","w","d">>) @@
  ("music" :> <<"m","u","s","i","c">>) @@
  ("sub" :> <<"s","u","b">>) @@
  ("other" :> <<"o","t","h","e","r">>) @@
  ("alac" :> <<"a","l","a","c">>) @@
  ("out" :> <<"o","u","t">>) @@
  ("a.flac" :> <<"a",".","f","l","a","c">>) @@
  ("b.flac" :> <<"b",".","f","l","a","c">>) @@
  ("a.m4a" :> <<"a",".","m","4","a">>) @@
  ("b.m4a" :> <<"b",".","m","4","a">>) @@
  ("notes.txt" :> <<"n","o","t","e","s",".","t","x","t">>) @@
  ("gone.flac" :> <<"g","o","n","e",".","f","l","a","c">>) @@
  (".m4a" :> <<".","m","4","a">>) @@
  (".flac" :> <<".","f","l","a","c">>) @@
  ("skip: output is up to date" :> <<"s","k","i","p",":"," ","o","u","t","p","u","t"," ","i","s"," ","u","p"," ","t","o"," ","d","a","t","e">>) @@
  ("dry-run: planned" :> <<"d","r","y","-","r","u","n",":"," ","p","l","a","n","n","e","d">>) @@
  ("ok" :> <<"o","k">>) @@
  ("could not delete the output: EPERM" :> <<"c","o","u","l","d"," ","n","o","t"," ","d","e","l","e","t","e"," ","t","h","e"," ","o","u","t","p","u","t",":"," ","E","P","E","R","M">>) @@
  ("conversion failed" :> <<"c","o","n","v","e","r","s","i","o","n"," ","f","a","i","l","e","d">>) @@
  ("command not found: " :> <<"c","o","m","m","a","n","d"," ","n","o","t"," ","f","o","u","n","d",":"," ">>) @@
  ("verify mismatch: PCM MD5 differ" :> <<"v","e","r","i","f","y"," ","m","i","s","m","a","t","c","h",":"," ","P","C","M"," ","M","D","5"," ","d","i","f","f","e","r">>) @@
  ("verify failed: decode error" :> <<"v","e","r","i","f","y"," ","f","a","i","l","e","d",":"," ","d","e","c","o","d","e"," ","e","r","r","o","r">>) @@
  ("" :> <<>>) @@
  ("skipping: bad input " :> <<"s","k","i","p","p","i","n","g",":"," ","b","a","d"," ","i","n","p","u","t"," ">>) @@
  ("skipping: bad input" :> <<"s","k","i","p","p","i","n","g",":"," ","b","a","d"," ","i","n","p","u","t">>) @@
  ("skip" :> <<"s","k","i","p">>) @@
  ("dry-run" :> <<"d","r","y","-","r","u","n">>)

Strings == DOMAIN Spell

\* the string of the given characters
Unspell(cs) == CHOOSE s \in Strings : Spell[s] = cs

UpperCase == <<"A","B","C","D","E","F","G","H","I","J","K","L","M",
               "N","O","P","Q","R","S","T","U","V","W","X","Y","Z">>

LowerCase == <<"a","b","c","d","e","f","g","h","i","j","k","l","m",
               "n","o","p","q","r","s","t","u","v","w","x","y","z">>

\* the characters of path names, in code point order
Chars == <<" ", "-", ".", "/", "4", ":">> \o UpperCase \o LowerCase

CharSet == { Chars[i] : i \in 1..Len(Chars) }

\* position in code point order: ord[c] < ord[d] iff c sorts before d
ord == [c \in CharSet |-> CHOOSE i \in 1..Len(Chars) : Chars[i] = c]

\* the lower case of a character
LowerOf ==
  [c \in CharSet |->
     IF \E k \in 1..Len(UpperCase) : UpperCase[k] = c
     THEN LowerCase[CHOOSE k \in 1..Len(UpperCase) : UpperCase[k] = c]
     ELSE c]

\* the sequence with the elements of the function f on 1..n
AsSeq(f) == SubSeq(f, 1, Len(f))

\* str.lower, on characters
lower(cs) == AsSeq([i \in 1..Len(cs) |-> LowerOf[cs[i]]])

\* the first position where s and t differ (a missing element differs)
FirstDiff(s, t) ==
  CHOOSE i \in 1..(Len(s) + 1) :
    /\ i > Len(s) \/ i > Len(t) \/ s[i] # t[i]
    /\ \A k \in 1..(i - 1) : k <= Len(t) /\ s[k] = t[k]

\* s < t, given the first position i where they differ
StrLessAt(s, t, i) ==
  IF i > Len(t) THEN FALSE
  ELSE IF i > Len(s) THEN TRUE
  ELSE ord[s[i]] < ord[t[i]]

\* str < str, on characters: lexicographic by code point, a proper prefix first
StrLess(s, t) == StrLessAt(s, t, FirstDiff(s, t))

\* str.startswith
startswith(s, prefix) ==
  /\ Len(Spell[s]) >= Len(Spell[prefix])
  /\ SubSeq(Spell[s], 1, Len(Spell[prefix])) = Spell[prefix]

RECURSIVE lstrip(_)
lstrip(cs) == IF cs # <<>> /\ cs[1] = " " THEN lstrip(Tail(cs)) ELSE cs

RECURSIVE rstrip(_)
rstrip(cs) ==
  IF cs # <<>> /\ cs[Len(cs)] = " " THEN rstrip(SubSeq(cs, 1, Len(cs) - 1)) ELSE cs

\* str.strip: leading and trailing blanks removed
strip(s) == Unspell(rstrip(lstrip(Spell[s])))

\* str.rfind(c), on characters: the last position of c, 0 when absent
rfind(cs, c) ==
  IF \E i \in 1..Len(cs) : cs[i] = c
  THEN CHOOSE i \in 1..Len(cs) : cs[i] = c /\ \A k \in (i + 1)..Len(cs) : cs[k] # c
  ELSE 0

----------------------------------------------------------------------------
(* pathlib *)

\* A path: root is TRUE for an absolute path, parts are its components.
Path(isabs, parts) == [root |-> isabs, parts |-> parts]

\* a relative path
Rel(parts) == Path(FALSE, parts)

\* Optional[Path]: <<>> is None, <<p>> is the path p
NoPath == <<>>

\* Optional[str]
None == "None"

\* Path.cwd()
cwd == Path(TRUE, <<"cwd">>)

\* p / q
joinpath(p, q) == IF q.root THEN q ELSE Path(p.root, p.parts \o q.parts)

\* Path.name
name(p) == IF p.parts = <<>> THEN "" ELSE p.parts[Len(p.parts)]

\* PurePath.suffix of a file name: from its last dot, when that dot is
\* neither the first nor the last character
suffix_of(n) ==
  LET cs == Spell[n]
      i == rfind(cs, ".")
  IN  IF 1 < i /\ i < Len(cs) THEN SubSeq(cs, i, Len(cs)) ELSE <<>>

\* Path.suffix, as characters
suffix(p) == suffix_of(name(p))

\* Path.with_suffix
with_suffix(p, ext) ==
  LET cs == Spell[name(p)]
      stem == SubSeq(cs, 1, Len(cs) - Len(suffix_of(name(p))))
  IN  Path(p.root,
           SubSeq(p.parts, 1, Len(p.parts) - 1) \o <<Unspell(stem \o Spell[ext])>>)

\* Path.parent
parent(p) ==
  IF p.parts = <<>> THEN p
  ELSE Path(p.root, SubSeq(p.parts, 1, Len(p.parts) - 1))

\* Path.resolve (the tree holds no symbolic link and no "..")
resolve(p) == IF p.root THEN p ELSE joinpath(cwd, p)

IsPrefix(s, t) == Len(s) <= Len(t) /\ SubSeq(t, 1, Len(s)) = s

\* Path.relative_to: ok is FALSE where pathlib raises ValueError
relative_to(p, base) ==
  IF p.root = base.root /\ IsPrefix(base.parts, p.parts)
  THEN [ok |-> TRUE,
        path |-> Path(FALSE, SubSeq(p.parts, Len(base.parts) + 1, Len(p.parts)))]
  ELSE [ok |-> FALSE, path |-> p]

\* the parts pathlib compares, as characters: an absolute path starts with
\* the root "/"
cparts(p) ==
  (IF p.root THEN << <<"/">> >> ELSE <<>>)
    \o AsSeq([i \in 1..Len(p.parts) |-> Spell[p.parts[i]]])

\* a < b for lists of strings, given the first position i where they differ
PartsLessAt(a, b, i) ==
  IF i > Len(b) THEN FALSE
  ELSE IF i > Len(a) THEN TRUE
  ELSE StrLess(a[i], b[i])

PartsLess(a, b) == PartsLessAt(a, b, FirstDiff(a, b))

\* Path < Path: the parts compared as a list of strings
PathLess(p, q) == PartsLess(cparts(p), cparts(q))

RECURSIVE joinparts(_)
joinparts(parts) ==
  IF parts = <<>> THEN <<>>
  ELSE IF Len(parts) = 1 THEN Spell[parts[1]]
  ELSE Spell[parts[1]] \o <<"/">> \o joinparts(Tail(parts))

\* str(Path), as characters
str(p) ==
  IF p.root THEN <<"/">> \o joinparts(p.parts)
  ELSE IF p.parts = <<>> THEN <<".">>
  ELSE joinparts(p.parts)

----------------------------------------------------------------------------
(* The filesystem: files keyed by the parts of their resolved path *)

Key(p) == resolve(p).parts

\* a regular file: modification time, empty or not, and the PCM audio it
\* decodes to ("bad": it does not decode)
File(mtime, size, pcm) == [mtime |-> mtime, size |-> size, pcm |-> pcm]

SrcFiles ==
  (<<"cwd", "music", "a.flac">> :> File(1, 1, "A")) @@
  (<<"cwd", "music", "sub", "b.flac">> :> File(1, 1, "B")) @@
  (<<"cwd", "other", "a.flac">> :> File(1, 1, "C")) @@
  (<<"cwd", "notes.txt">> :> File(1, 1, "bad"))

SrcDirs ==
  { <<"cwd">>, <<"cwd", "music">>, <<"cwd", "music", "sub">>, <<"cwd", "other">> }

\* the places an earlier run may have left outputs, with the audio of the
\* source each came from
OldOutputs ==
  (<<"cwd", "music", "a.m4a">> :> "A") @@
  (<<"cwd", "music", "sub", "b.m4a">> :> "B") @@
  (<<"cwd", "other", "a.m4a">> :> "C") @@
  (<<"cwd", "alac", "a.m4a">> :> "A") @@
  (<<"cwd", "alac", "sub", "b.m4a">> :> "B")

OldDirs == { <<"cwd", "alac">>, <<"cwd", "alac", "sub">> }

\* what an earlier run left: nothing; outputs older than the sources (those
\* of b.flac empty, as a failed conversion leaves them); outputs as new as
\* the sources
DstStates == {"absent", "stale", "fresh"}

InitialFs(dstState) ==
  IF dstState = "absent"
  THEN [files |-> SrcFiles, dirs |-> SrcDirs]
  ELSE [files |->
          [k \in DOMAIN OldOutputs |->
             IF dstState = "fresh" THEN File(1, 1, OldOutputs[k])
             ELSE IF OldOutputs[k] = "B" THEN File(0, 0, "bad")
             ELSE File(0, 1, "old")] @@ SrcFiles,
        dirs |-> SrcDirs \cup OldDirs]

is_file(f, p) == Key(p) \in DOMAIN f.files
is_dir(f, p) == Key(p) \in f.dirs

\* Path.unlink of a file
unlink(f, p) ==
  [f EXCEPT !.files = [k \in DOMAIN f.files \ {Key(p)} |-> f.files[k]]]

\* the file at p written
write(f, p, file) ==
  [f EXCEPT !.files = (Key(p) :> file) @@ f.files]

\* the directories Path.mkdir(parents=True) needs: p and its ancestors
Ancestors(p) == { SubSeq(Key(p), 1, n) : n \in 1..Len(Key(p)) }

----------------------------------------------------------------------------
(* Input collection *)

SUPPORTED_INPUT_EXTS == { Spell[".flac"] }

OUTPUT_EXT == ".m4a"

\* the place of s[i] in the stable sort of s: after every smaller element
\* and after every earlier element that is not greater
PathRank(s, i) ==
  1 + Cardinality({ k \in 1..Len(s) :
                      \/ PathLess(s[k], s[i])
                      \/ k < i /\ ~PathLess(s[i], s[k]) })

\* sorted(list of Path): stable
sorted(s) ==
  AsSeq([n \in 1..Len(s) |-> s[CHOOSE i \in 1..Len(s) : PathRank(s, i) = n]])

\* the members of a set of paths, as a sequence
RECURSIVE SeqOfSet(_)
SeqOfSet(T) ==
  IF T = {} THEN <<>>
  ELSE LET x == CHOOSE y \in T : TRUE
       IN  <<x>> \o SeqOfSet(T \ {x})

\* p.rglob("*"): every entry below p, as p joined with the relative parts
rglob(f, p) ==
  { Path(p.root, p.parts \o SubSeq(k, Len(Key(p)) + 1, Len(k))) :
      k \in { k \in (DOMAIN f.files) \cup f.dirs :
                IsPrefix(Key(p), k) /\ Len(k) > Len(Key(p)) } }

Eligible(f, p) == is_file(f, p) /\ lower(suffix(p)) \in SUPPORTED_INPUT_EXTS

\* what one input path adds to files (rglob yields in no particular order)
Expand(f, p) ==
  IF Eligible(f, p) THEN <<p>>
  ELSE IF is_dir(f, p) THEN SeqOfSet({ q \in rglob(f, p) : Eligible(f, q) })
  ELSE <<>>

RECURSIVE Collected(_, _)
Collected(f, paths) ==
  IF paths = <<>> THEN <<>>
  ELSE Expand(f, paths[1]) \o Collected(f, Tail(paths))

gather_inputs(f, paths) == sorted(Collected(f, paths))

\* the inputs gather_inputs warns about
Warned(f, paths) ==
  { i \in 1..Len(paths) : ~Eligible(f, paths[i]) /\ ~is_dir(f, paths[i]) }

----------------------------------------------------------------------------
(* Encoder detection and command lines *)

\* shutil.which: env is the set of programs found executable
which(env, prog) == IF prog \in env THEN prog ELSE None

\* "if explicit": neither None nor the empty string
which_ffmpeg(env, explicit) ==
  IF explicit # None /\ explicit # ""
  THEN (IF which(env, explicit) # None THEN explicit ELSE None)
  ELSE which(env, "ffmpeg")

which_afconvert(env) == which(env, "afconvert")

\* detect_converter without its final raise: ffmpeg is assumed when nothing
\* is found
detect_converter_never_fails(env, prefer_afconvert, ffmpeg_path) ==
  LET ff == which_ffmpeg(env, ffmpeg_path)
      af == which_afconvert(env)
  IN  IF prefer_afconvert /\ af # None
      THEN [ok |-> TRUE, kind |-> "afconvert", path |-> af, warned |-> FALSE]
      ELSE IF ff # None
      THEN [ok |-> TRUE, kind |-> "ffmpeg", path |-> ff, warned |-> FALSE]
      ELSE IF af # None
      THEN [ok |-> TRUE, kind |-> "afconvert", path |-> af, warned |-> TRUE]
      ELSE [ok |-> TRUE, kind |-> "ffmpeg", path |-> "ffmpeg", warned |-> FALSE]

\* detect_converter with the preference tested after ffmpeg
detect_converter_ffmpeg_first(env, prefer_afconvert, ffmpeg_path) ==
  LET ff == which_ffmpeg(env, ffmpeg_path)
      af == which_afconvert(env)
  IN  IF ff # None
      THEN [ok |-> TRUE, kind |-> "ffmpeg", path |-> ff, warned |-> FALSE]
      ELSE IF prefer_afconvert /\ af # None
      THEN [ok |-> TRUE, kind |-> "afconvert", path |-> af, warned |-> FALSE]
      ELSE IF af # None
      THEN [ok |-> TRUE, kind |-> "afconvert", path |-> af, warned |-> TRUE]
      ELSE [ok |-> FALSE, kind |-> None, path |-> None, warned |-> FALSE]

\* ok is FALSE where detect_converter raises RuntimeError
detect_converter(env, prefer_afconvert, ffmpeg_path) ==
  LET ff == which_ffmpeg(env, ffmpeg_path)
      af == which_afconvert(env)
  IN  IF prefer_afconvert /\ af # None
      THEN [ok |-> TRUE, kind |-> "afconvert", path |-> af, warned |-> FALSE]
      ELSE IF ff # None
      THEN [ok |-> TRUE, kind |-> "ffmpeg", path |-> ff, warned |-> FALSE]
      ELSE IF af # None
      THEN [ok |-> TRUE, kind |-> "afconvert", path |-> af, warned |-> TRUE]
      ELSE [ok |-> FALSE, kind |-> None, path |-> None, warned |-> FALSE]

\* the argument vector, by what the encoder reads from it
build_ffmpeg_cmd(ffmpeg, src, dst, overwrite, keep_artwork) ==
  [prog |-> "ffmpeg", bin |-> ffmpeg,
   flag |-> IF overwrite THEN "-y" ELSE "-n",
   src |-> src, dst |-> dst, artwork |-> keep_artwork]

\* afconvert gets neither an overwrite flag nor the artwork options
build_afconvert_cmd(afconvert, src, dst, overwrite) ==
  [prog |-> "afconvert", bin |-> afconvert, flag |-> "",
   src |-> src, dst |-> dst, artwork |-> FALSE]

----------------------------------------------------------------------------
(* Planning *)

\* ok is FALSE where Path.mkdir raises: a file is in the way, or a
\* directory has to be created and the filesystem refuses
ensure_parent_dir(f, p, permitted) ==
  LET need == Ancestors(parent(p))
  IN  IF \E d \in need : d \in DOMAIN f.files THEN [ok |-> FALSE, fs |-> f]
      ELSE IF need \subseteq f.dirs THEN [ok |-> TRUE, fs |-> f]
      ELSE IF permitted THEN [ok |-> TRUE, fs |-> [f EXCEPT !.dirs = @ \cup need]]
      ELSE [ok |-> FALSE, fs |-> f]

\* ok is FALSE where src.relative_to(input_root) raises ValueError
compute_output_path(src, o, input_root) ==
  LET out_name == Rel(<<name(with_suffix(src, OUTPUT_EXT))>>)
  IN  IF o.inplace THEN [ok |-> TRUE, path |-> with_suffix(src, OUTPUT_EXT)]
      ELSE IF input_root = NoPath
      THEN [ok |-> TRUE, path |-> joinpath(o.output_dir[1], out_name)]
      ELSE LET rel == relative_to(src, input_root[1])
           IN  IF rel.ok
               THEN [ok |-> TRUE,
                     path |-> joinpath(o.output_dir[1],
                                       with_suffix(rel.path, OUTPUT_EXT))]
               ELSE [ok |-> FALSE, path |-> src]

\* should_skip with > for >=: an output as old as its source is converted again
should_skip_strict(f, src, dst, overwrite) ==
  IF overwrite THEN FALSE
  ELSE IF ~is_file(f, dst) THEN FALSE
  ELSE IF ~is_file(f, src) THEN FALSE
  ELSE f.files[Key(dst)].mtime > f.files[Key(src)].mtime

\* a missing source makes src.stat() raise FileNotFoundError: no skip
should_skip(f, src, dst, overwrite) ==
  IF overwrite THEN FALSE
  ELSE IF ~is_file(f, dst) THEN FALSE
  ELSE IF ~is_file(f, src) THEN FALSE
  ELSE f.files[Key(dst)].mtime >= f.files[Key(src)].mtime

----------------------------------------------------------------------------
(* Messages of a Job Result.  The report reads only the prefix of a message
   ("skip", "dry-run"); what follows it is Japanese text in the source and
   is given here in ASCII. *)

msg_skip == "skip: output is up to date"
msg_dry_run == "dry-run: planned"
msg_ok == "ok"
msg_unlink_failed == "could not delete the output: EPERM"
msg_convert_failed == "conversion failed"
msg_not_found == "command not found: "
msg_verify_mismatch == "verify mismatch: PCM MD5 differ"
msg_verify_failed == "verify failed: decode error"

\* what the encoder may write to its standard error when it fails
StderrTexts == { "", "skipping: bad input " }

----------------------------------------------------------------------------
(* External processes *)

Fails(f2, texts) == { [rc |-> "nonzero", fs |-> f2, stderr |-> e] : e \in texts }

\* What running the encoder on cmd may do to the filesystem f.  The program
\* may not start at all (FileNotFoundError).  It may exit
\* nonzero having written nothing; with a readable source, and unless ffmpeg
\* was given -n and the output exists (it then refuses and leaves the output
\* alone), it may exit nonzero leaving an empty or a truncated output, or
\* exit 0 having written an output that decodes to the source's audio, to
\* other audio ("X") or not at all ("bad").
encode(f, cmd) ==
  LET srcOk == is_file(f, cmd.src) /\ f.files[Key(cmd.src)].pcm # "bad"
      refuse == cmd.prog = "ffmpeg" /\ cmd.flag = "-n" /\ is_file(f, cmd.dst)
  IN  { [rc |-> "enoent", fs |-> f, stderr |-> ""] }
      \cup Fails(f, StderrTexts)
      \cup (IF srcOk /\ ~refuse
            THEN Fails(write(f, cmd.dst, File(Now, 0, "bad")), {""})
                 \cup Fails(write(f, cmd.dst, File(Now, 1, "bad")), {""})
                 \cup { [rc |-> "zero",
                         fs |-> write(f, cmd.dst, File(Now, 1, pcm)),
                         stderr |-> ""] :
                        pcm \in {f.files[Key(cmd.src)].pcm, "X", "bad"} }
            ELSE {})

\* hashlib.md5 of the decoded PCM stream
md5(pcm) == <<"md5", pcm>>

\* ok is FALSE where compute_pcm_md5 raises: the decoder exits nonzero
compute_pcm_md5(f, ffmpeg, p) ==
  IF is_file(f, p) /\ f.files[Key(p)].pcm # "bad"
  THEN [ok |-> TRUE, digest |-> md5(f.files[Key(p)].pcm)]
  ELSE [ok |-> FALSE, digest |-> <<>>]

----------------------------------------------------------------------------
(* State *)

VARIABLES
  args,        \* the parsed command line
  env,         \* the programs found executable
  fs,          \* the filesystem
  mainpc,      \* where main is: start, dispatch, drain, exit, crashed
  exitCode,    \* the exit status of the process, -1 while it runs
  files,       \* the collected source files
  input_root,  \* Optional[Path]
  jobs,        \* per collected file: the state of its convert_one call
  results,     \* the Job Results main has collected
  report       \* the printed report lines and the summary counts

vars == <<args, env, fs, mainpc, exitCode, files, input_root, jobs, results, report>>

p_music == Rel(<<"music">>)
p_a == Rel(<<"music", "a.flac">>)
p_other_a == Rel(<<"other", "a.flac">>)

\* the command lines explored: a directory (relative, absolute), a file,
\* a file given twice, two files of the same name, nothing eligible,
\* a file and a missing path
InputLists ==
  { <<p_music>>, <<resolve(p_music)>>, <<p_a>>, <<p_a, p_a>>,
    <<p_a, p_other_a>>, <<Rel(<<"notes.txt">>)>>, <<p_a, Rel(<<"gone.flac">>)>> }

\* Options, as main builds it from the arguments
opts ==
  [output_dir |->
     IF ~args.inplace /\ args.output = NoPath
     THEN <<joinpath(cwd, Rel(<<"alac">>))>>
     ELSE args.output,
   inplace |-> args.inplace,
   overwrite |-> args.overwrite,
   dry_run |-> args.dry_run,
   workers |-> IF args.workers > 1 THEN args.workers ELSE 1,
   keep_artwork |-> args.keep_artwork,
   prefer_afconvert |-> args.prefer_afconvert,
   ffmpeg_path |-> args.ffmpeg_path,
   delete_original |-> args.delete_original,
   verify |-> args.verify,
   ffmpeg_for_verify |-> which_ffmpeg(env, args.ffmpeg_path)]

detected == detect_converter(env, opts.prefer_afconvert, opts.ffmpeg_path)

NoReport == [lines |-> <<>>, ok |-> 0, skipped |-> 0, failed |-> 0]

\* the output options explored: neither (the default ./alac), --inplace,
\* and both (the conflict)
OutputModes ==
  { [inplace |-> FALSE, output |-> NoPath],
    [inplace |-> TRUE, output |-> NoPath],
    [inplace |-> TRUE, output |-> <<Rel(<<"out">>)>>] }

\* the encoders found and --prefer-afconvert: one case per outcome of
\* detect_converter (ffmpeg; afconvert with ffmpeg there to verify with;
\* afconvert alone; none)
Encoders ==
  { [env |-> {"ffmpeg", "afconvert"}, prefer |-> FALSE],
    [env |-> {"ffmpeg", "afconvert"}, prefer |-> TRUE],
    [env |-> {"afconvert"}, prefer |-> FALSE],
    [env |-> {}, prefer |-> FALSE] }

Init ==
  /\ \E m \in OutputModes, e \in Encoders :
       /\ args \in [inputs : InputLists,
                    output : {m.output},
                    inplace : {m.inplace},
                    workers : 1..MaxWorkers,
                    dry_run : BOOLEAN,
                    overwrite : BOOLEAN,
                    keep_artwork : {TRUE},
                    prefer_afconvert : {e.prefer},
                    ffmpeg_path : {None},
                    delete_original : BOOLEAN,
                    verify : BOOLEAN]
       /\ env = e.env
  /\ fs \in { InitialFs(d) : d \in DstStates }
  /\ mainpc = "start"
  /\ exitCode = -1
  /\ files = <<>>
  /\ input_root = NoPath
  /\ jobs = <<>>
  /\ results = <<>>
  /\ report = NoReport

----------------------------------------------------------------------------
(* main: arguments, detection, collection *)

NewJob ==
  [pc |-> "queued", dst |-> NoPath, md5_src |-> <<>>,
   success |-> FALSE, msg |-> "", ev |-> {}]

\* main up to the dispatch: the conflicting options (argparse's mutually
\* exclusive group ends the process with status 2 as the test in main
\* would), the encoder detection, the input collection and the input root
Startup ==
  /\ mainpc = "start"
  /\ IF args.inplace /\ opts.output_dir # NoPath
     THEN /\ mainpc' = "exit"
          /\ exitCode' = 2
          /\ UNCHANGED <<files, input_root, jobs>>
     ELSE IF ~detected.ok
     THEN /\ mainpc' = "exit"
          /\ exitCode' = 127
          /\ UNCHANGED <<files, input_root, jobs>>
     ELSE LET found == gather_inputs(fs, args.inputs)
          IN  IF found = <<>>
              THEN /\ mainpc' = "exit"
                   /\ exitCode' = 0
                   /\ UNCHANGED <<files, input_root, jobs>>
              ELSE /\ files' = found
                   /\ input_root' =
                        IF Len(args.inputs) = 1 /\ is_dir(fs, args.inputs[1])
                        THEN <<resolve(args.inputs[1])>>
                        ELSE NoPath
                   /\ jobs' = [j \in 1..Len(found) |-> NewJob]
                   /\ mainpc' = "dispatch"
                   /\ UNCHANGED exitCode
  /\ UNCHANGED <<args, env, fs, results, report>>

----------------------------------------------------------------------------
(* convert_one *)

Result(j, job) ==
  [src |-> files[j], dst |-> job.dst, success |-> job.success, msg |-> job.msg]

Ev(job, e) == [job EXCEPT !.ev = @ \cup {e}]

\* return (src, dst, success, msg)
Return(job, success, msg) ==
  [job EXCEPT !.pc = "returned", !.success = success, !.msg = msg]

\* an exception leaves convert_one
Raise(job) == [job EXCEPT !.pc = "raised"]

\* the convert_one calls a worker thread is inside of
Running == { i \in 1..Len(jobs) : jobs[i].pc \in {"backend", "verify_src", "verify_dst"} }

\* A step of convert_one for file j takes effect.  With one worker the call
\* is made by main's loop: the returned tuple is appended to results at once
\* and an exception leaves main.  With a pool the future holds the outcome.
Commit(j, job, f2) ==
  /\ fs' = f2
  /\ IF opts.workers = 1 /\ job.pc = "returned"
     THEN /\ jobs' = [jobs EXCEPT ![j] = [job EXCEPT !.pc = "collected"]]
          /\ results' = Append(results, Result(j, job))
          /\ UNCHANGED <<mainpc, exitCode>>
     ELSE IF opts.workers = 1 /\ job.pc = "raised"
     THEN /\ jobs' = [jobs EXCEPT ![j] = job]
          /\ mainpc' = "crashed"
          /\ exitCode' = 1
          /\ UNCHANGED results
     ELSE /\ jobs' = [jobs EXCEPT ![j] = job]
          /\ UNCHANGED <<results, mainpc, exitCode>>
  /\ UNCHANGED <<args, env, files, input_root, report>>

\* the end of convert_one: the original is deleted when asked for (a
\* failure is a warning) and the result is "ok"
Done(job, f, src, permitted) ==
  IF opts.delete_original
  THEN IF is_file(f, src) /\ permitted
       THEN [job |-> Return(Ev(job, "unlink_src"), TRUE, msg_ok), fs |-> unlink(f, src)]
       ELSE [job |-> Return(Ev(job, "warn_unlink_src"), TRUE, msg_ok), fs |-> f]
  ELSE [job |-> Return(job, TRUE, msg_ok), fs |-> f]

\* the command line of the detected encoder
Cmd(src, dst) ==
  IF detected.kind = "ffmpeg"
  THEN build_ffmpeg_cmd(detected.path, src, dst, opts.overwrite, opts.keep_artwork)
  ELSE build_afconvert_cmd(detected.path, src, dst, opts.overwrite)

\* the deletion before afconvert left out
deletes_never(f, dst) == FALSE

\* kind is not "ffmpeg", and opts.overwrite and dst.exists(): the output is
\* deleted before afconvert is run
deletes_first(f, dst) ==
  detected.kind # "ffmpeg" /\ opts.overwrite /\ is_file(f, dst)

\* the dispatch with the bound on the worker threads left out
may_start_unbounded(j) == TRUE

\* convert_one may be called for file j: by the loop once the calls before
\* it have returned (one worker), by a thread of the pool when fewer than
\* max_workers calls are running
may_start(j) ==
  IF opts.workers = 1
  THEN mainpc = "dispatch" /\ \A i \in 1..(j - 1) : jobs[i].pc = "collected"
  ELSE Cardinality(Running) < opts.workers

\* convert_one from its start to the encoder subprocess: the destination,
\* the skip check, the dry run, the parent directory, and for afconvert the
\* deletion of an output that is to be overwritten
JobStart(j) ==
  /\ mainpc \in {"dispatch", "drain"}
  /\ jobs[j].pc = "queued"
  /\ \A i \in 1..(j - 1) : jobs[i].pc # "queued"
  /\ may_start(j)
  /\ \E mkdirPermitted \in BOOLEAN, unlinkPermitted \in BOOLEAN :
       LET src == files[j]
           plan == compute_output_path(src, opts, input_root)
           dst == plan.path
           job == [jobs[j] EXCEPT !.dst = <<dst>>]
           mk == ensure_parent_dir(fs, dst, mkdirPermitted)
           made == IF mk.fs # fs THEN Ev(job, "mkdir") ELSE job
       IN  IF ~plan.ok THEN Commit(j, Raise(jobs[j]), fs)
           ELSE IF should_skip(fs, src, dst, opts.overwrite)
           THEN Commit(j, Return(job, TRUE, msg_skip), fs)
           ELSE IF opts.dry_run
           THEN Commit(j, Return(job, TRUE, msg_dry_run), fs)
           ELSE IF ~mk.ok THEN Commit(j, Raise(job), fs)
           ELSE IF deletes_first(mk.fs, dst)
           THEN IF unlinkPermitted
                THEN Commit(j, [Ev(made, "unlink_dst") EXCEPT !.pc = "backend"],
                            unlink(mk.fs, dst))
                ELSE Commit(j, Return(Ev(made, "denied_dst"), FALSE, msg_unlink_failed),
                            mk.fs)
           ELSE Commit(j, [made EXCEPT !.pc = "backend"], mk.fs)

\* subprocess.run of the encoder and what follows its exit
JobBackend(j) ==
  /\ mainpc \in {"dispatch", "drain"}
  /\ jobs[j].pc = "backend"
  /\ \E out \in encode(fs, Cmd(files[j], jobs[j].dst[1])), permitted \in BOOLEAN :
       LET src == files[j]
           dst == jobs[j].dst[1]
           job == Ev(jobs[j], "backend")
           failed == Ev(job, "backend_nonzero")
           text == strip(out.stderr)
           empty == is_file(out.fs, dst) /\ out.fs.files[Key(dst)].size = 0
           end == Done(Ev(job, "backend_zero"), out.fs, src, permitted)
       IN  CASE out.rc = "enoent" ->
                  Commit(j, Return(job, FALSE, msg_not_found), out.fs)
             [] out.rc = "nonzero" ->
                  Commit(j,
                         Return(IF empty
                                THEN Ev(failed, IF permitted THEN "unlink_dst" ELSE "denied_dst")
                                ELSE failed,
                                FALSE,
                                IF text # "" THEN text ELSE msg_convert_failed),
                         IF empty /\ permitted THEN unlink(out.fs, dst) ELSE out.fs)
             [] OTHER ->
                  IF opts.verify /\ opts.ffmpeg_for_verify # None
                  THEN Commit(j, [Ev(job, "backend_zero") EXCEPT !.pc = "verify_src"], out.fs)
                  ELSE Commit(j, end.job, end.fs)

\* compute_pcm_md5 of the source
JobVerifySrc(j) ==
  /\ mainpc \in {"dispatch", "drain"}
  /\ jobs[j].pc = "verify_src"
  /\ LET d == compute_pcm_md5(fs, opts.ffmpeg_for_verify, files[j])
         job == Ev(jobs[j], "decode_src")
     IN  IF d.ok
         THEN Commit(j, [job EXCEPT !.pc = "verify_dst", !.md5_src = d.digest], fs)
         ELSE Commit(j, Return(job, FALSE, msg_verify_failed), fs)

\* the comparison left out: no two digests are found different
digests_never_differ(md5_src, md5_dst) == FALSE

\* md5_src != md5_dst
digests_differ(md5_src, md5_dst) == md5_src # md5_dst

\* compute_pcm_md5 of the destination, the comparison and what follows it
JobVerifyDst(j) ==
  /\ mainpc \in {"dispatch", "drain"}
  /\ jobs[j].pc = "verify_dst"
  /\ \E permitted \in BOOLEAN :
       LET src == files[j]
           dst == jobs[j].dst[1]
           d == compute_pcm_md5(fs, opts.ffmpeg_for_verify, dst)
           job == Ev(jobs[j], "decode_dst")
           end == Done(Ev(job, "verified"), fs, src, permitted)
       IN  IF ~d.ok THEN Commit(j, Return(job, FALSE, msg_verify_failed), fs)
           ELSE IF digests_differ(jobs[j].md5_src, d.digest)
           THEN IF ~is_file(fs, dst)
                THEN Commit(j, Return(job, FALSE, msg_verify_mismatch), fs)
                ELSE IF permitted
                THEN Commit(j, Return(Ev(job, "unlink_dst"), FALSE, msg_verify_mismatch),
                            unlink(fs, dst))
                ELSE Commit(j, Return(Ev(job, "denied_dst"), FALSE, msg_verify_mismatch), fs)
           ELSE Commit(j, end.job, end.fs)

----------------------------------------------------------------------------
(* main: the pool, the report, the exit status *)

\* as_completed hands main a finished future: its result is appended, or
\* its exception is raised out of the loop and the pool is left to drain
CollectResult(j) ==
  /\ mainpc = "dispatch"
  /\ opts.workers > 1
  /\ jobs[j].pc \in {"returned", "raised"}
  /\ IF jobs[j].pc = "returned"
     THEN /\ results' = Append(results, Result(j, jobs[j]))
          /\ jobs' = [jobs EXCEPT ![j].pc = "collected"]
          /\ UNCHANGED mainpc
     ELSE /\ mainpc' = "drain"
          /\ UNCHANGED <<results, jobs>>
  /\ UNCHANGED <<args, env, fs, exitCode, files, input_root, report>>

\* leaving the with block waits for every submitted call; then the
\* exception ends the process
DrainDone ==
  /\ mainpc = "drain"
  /\ \A i \in 1..Len(jobs) : jobs[i].pc \in {"returned", "raised", "collected"}
  /\ mainpc' = "crashed"
  /\ exitCode' = 1
  /\ UNCHANGED <<args, env, fs, files, input_root, jobs, results, report>>

\* the sort key of the report: str(r[0]).lower()
ReportKey(r) == lower(str(r.src))

\* the place of rs[i] in the stable sort of rs by keys
KeyRank(keys, i) ==
  1 + Cardinality({ k \in 1..Len(keys) :
                      \/ StrLess(keys[k], keys[i])
                      \/ k < i /\ ~StrLess(keys[i], keys[k]) })

\* rs in the stable order of its keys
SortByKeys(rs, keys) ==
  AsSeq([n \in 1..Len(rs) |-> rs[CHOOSE i \in 1..Len(rs) : KeyRank(keys, i) = n]])

\* sorted(results, key=lambda r: str(r[0]).lower()): stable
SortResults(rs) ==
  SortByKeys(rs, AsSeq([i \in 1..Len(rs) |-> ReportKey(rs[i])]))

\* the status tag of a result, by the prefix of its message
Status(r) ==
  IF startswith(r.msg, "skip") THEN "SKIP"
  ELSE IF startswith(r.msg, "dry-run") THEN "DRY"
  ELSE IF r.success THEN "OK"
  ELSE "FAIL"

Count(lines, status) == Cardinality({ i \in 1..Len(lines) : lines[i].status = status })

\* the report loop over the sorted results: one line per result
Lines(ordered) ==
  AsSeq([i \in 1..Len(ordered) |->
           [status |-> Status(ordered[i]), src |-> ordered[i].src,
            dst |-> ordered[i].dst, success |-> ordered[i].success,
            msg |-> ordered[i].msg]])

\* the lines and the counters of the summary
Summary(lines) ==
  [lines |-> lines, ok |-> Count(lines, "OK"),
   skipped |-> Count(lines, "SKIP"), failed |-> Count(lines, "FAIL")]

\* the report and the exit status
Report ==
  /\ mainpc = "dispatch"
  /\ Len(results) = Len(files)
  /\ report' = Summary(Lines(SortResults(results)))
  /\ exitCode' = IF report'.failed = 0 THEN 0 ELSE 1
  /\ mainpc' = "exit"
  /\ UNCHANGED <<args, env, fs, files, input_root, jobs, results>>

Next ==
  \/ Startup
  \/ \E j \in 1..Len(jobs) : JobStart(j)
  \/ \E j \in 1..Len(jobs) : JobBackend(j)
  \/ \E j \in 1..Len(jobs) : JobVerifySrc(j)
  \/ \E j \in 1..Len(jobs) : JobVerifyDst(j)
  \/ \E j \in 1..Len(jobs) : CollectResult(j)
  \/ DrainDone
  \/ Report

Spec == Init /\ [][Next]_vars

----------------------------------------------------------------------------
(* Properties *)

\* convert_one for this job is over: it returned or it raised
Ended(job) == job.pc \in {"returned", "collected", "raised"}

\* the process has ended after dispatching jobs
RunOver == mainpc \in {"exit", "crashed"} /\ jobs # <<>>

\* C1: once all jobs have finished, the exit status is 1 if some Job Result
\* has its success flag false and 0 if none has, whatever the messages are.
C1_ExitFromFlags ==
  (mainpc = "exit" /\ jobs # <<>>) =>
    exitCode = IF \E i \in 1..Len(results) : ~results[i].success THEN 1 ELSE 0

C3_DryRun ==
  args.dry_run =>
    /\ fs \in { InitialFs(d) : d \in DstStates }
    /\ \A j \in 1..Len(jobs) :
         /\ jobs[j].ev = {}
         /\ jobs[j].pc \in {"queued", "returned", "collected"}
         /\ jobs[j].pc # "queued" => jobs[j].success

\* C4: a job deletes its source only when delete-original is set, the
\* encoder exited with status 0 and the verification either succeeded or
\* was not requested.
C4_DeleteOnlyVerified ==
  \A j \in 1..Len(jobs) :
    "unlink_src" \in jobs[j].ev =>
      /\ opts.delete_original
      /\ "backend_zero" \in jobs[j].ev
      /\ "verified" \in jobs[j].ev \/ ~opts.verify

\* C5: no step of convert_one raises: every job ends by returning a result
\* tuple, so neither the loop nor fut.result() sees an exception.
C5_NeverRaises ==
  /\ \A j \in 1..Len(jobs) : jobs[j].pc # "raised"
  /\ mainpc \notin {"drain", "crashed"}

\* C6: in a run over two or more files, with one worker or several, a job
\* whose encoder exits nonzero keeps no other job from reaching its own
\* result, and the exit status is 1.  (Runs in which a job raises are left
\* to C5.)
C6_FailureIsolation ==
  ( /\ RunOver
    /\ Len(files) >= 2
    /\ \A i \in 1..Len(jobs) : jobs[i].pc # "raised"
    /\ \E j \in 1..Len(jobs) : "backend_nonzero" \in jobs[j].ev )
  => /\ \A i \in 1..Len(jobs) : jobs[i].pc = "collected"
     /\ Len(results) = Len(files)
     /\ exitCode = 1


\* the sole input is a directory and the output goes under the output directory
MirrorMode ==
  Len(args.inputs) = 1 /\ is_dir(fs, args.inputs[1]) /\ ~opts.inplace

\* dst lies under the output directory where src lies under the input
\* directory, with the extension replaced by .m4a
Mirrors(src, dst) ==
  LET under == relative_to(resolve(src), resolve(args.inputs[1]))
      out == relative_to(dst, opts.output_dir[1])
  IN  under.ok /\ out.ok /\ out.path = with_suffix(under.path, OUTPUT_EXT)

\* C7: with a single directory as the sole input, relative or absolute, in
\* directory-output mode, every job's destination mirrors its source under the
\* output directory and the run completes with one result per file.
C7_Mirroring ==
  (MirrorMode /\ jobs # <<>>) =>
    /\ \A j \in 1..Len(jobs) :
         /\ jobs[j].pc # "raised"
         /\ jobs[j].dst # NoPath => Mirrors(files[j], jobs[j].dst[1])
    /\ mainpc # "crashed"
    /\ mainpc = "exit" =>
         /\ Len(results) = Len(files)
         /\ \A i \in 1..Len(results) :
              results[i].dst # NoPath /\ Mirrors(results[i].src, results[i].dst[1])

\* C8: with verify requested and an ffmpeg to verify with, a job ends with
\* the result "ok" only from the comparison of the two digests, taken after the
\* encoder exited 0, and only if the destination's digest equals the source's;
\* a job that finds the digests different ends with a failed result.
C8_OkOnlyVerified ==
  [][\A j \in 1..Len(jobs) :
       ( /\ opts.verify
         /\ opts.ffmpeg_for_verify # None
         /\ ~Ended(jobs[j])
         /\ Ended(jobs'[j]) )
       => LET d == compute_pcm_md5(fs, opts.ffmpeg_for_verify, jobs'[j].dst[1])
          IN  /\ (jobs'[j].success /\ jobs'[j].msg = msg_ok) =>
                   /\ jobs[j].pc = "verify_dst"
                   /\ {"backend_zero", "decode_src"} \subseteq jobs[j].ev
                   /\ "decode_dst" \in jobs'[j].ev
                   /\ d.ok
                   /\ d.digest = jobs[j].md5_src
              /\ (jobs[j].pc = "verify_dst" /\ d.ok /\ d.digest # jobs[j].md5_src) =>
                   /\ jobs'[j].pc # "raised"
                   /\ ~jobs'[j].success
                   /\ Status(Result(j, jobs'[j])) = "FAIL"]_vars

\* one job has ended "ok" after its digests were compared and another has
\* failed on a mismatch
C8_Witness ==
  /\ opts.verify
  /\ opts.ffmpeg_for_verify # None
  /\ \E j \in 1..Len(jobs) :
       /\ Ended(jobs[j])
       /\ jobs[j].msg = msg_ok
       /\ {"decode_src", "decode_dst"} \subseteq jobs[j].ev
  /\ \E j \in 1..Len(jobs) :
       /\ Ended(jobs[j])
       /\ jobs[j].msg = msg_verify_mismatch

\* C9: a job whose verification of the destination fails, by a different
\* digest or by a decode error, ends in failure with the destination removed,
\* where the filesystem permits the deletion.
C9_UnverifiedRemoved ==
  [][\A j \in 1..Len(jobs) :
       ( /\ jobs[j].pc = "verify_dst"
         /\ Ended(jobs'[j])
         /\ jobs'[j].msg # msg_ok
         /\ "denied_dst" \notin jobs'[j].ev )
       => /\ jobs'[j].pc # "raised"
          /\ ~jobs'[j].success
          /\ ~is_file(fs', jobs'[j].dst[1])]_vars

\* C10: whatever the files, the worker count and the order in which the jobs
\* complete, main collects exactly one Job Result per collected file and the
\* report has as many lines as there are collected files.
C10_OneResultPerFile ==
  RunOver =>
    /\ mainpc = "exit"
    /\ Len(results) = Len(files)
    /\ \A j \in 1..Len(files) :
         Cardinality({ i \in 1..Len(results) : results[i].src = files[j] })
           = Cardinality({ k \in 1..Len(files) : files[k] = files[j] })
    /\ Len(report.lines) = Len(files)


\* the Job Results of a run in the order of the collected files
ResultsInFileOrder == AsSeq([j \in 1..Len(jobs) |-> Result(j, jobs[j])])

\* C11: the printed report lines are those of the files and their jobs'
\* outcomes alone: whatever the order in which the pool completed the jobs,
\* the report is the one printed when they complete in the order of the files.
C11_ReportOrder ==
  (mainpc = "exit" /\ jobs # <<>>) =>
    report.lines = Lines(SortResults(ResultsInFileOrder))


\* the files the inputs name: an eligible file given itself, or lying
\* below a directory given
NamedByInputs ==
  { k \in DOMAIN fs.files :
      /\ lower(suffix(Path(TRUE, k))) \in SUPPORTED_INPUT_EXTS
      /\ \E i \in 1..Len(args.inputs) :
           \/ Key(args.inputs[i]) = k
           \/ is_dir(fs, args.inputs[i]) /\ IsPrefix(Key(args.inputs[i]), k) }

\* C12: the collected files are sorted and hold each eligible file the
\* inputs name exactly once, a path given twice included; a missing or
\* ineligible input does not abort the collection.
C12_GatherInputs ==
  (mainpc = "dispatch" /\ \A j \in 1..Len(jobs) : jobs[j].pc = "queued") =>
    /\ \A i, j \in 1..Len(files) : i < j => ~PathLess(files[j], files[i])
    /\ \A i, j \in 1..Len(files) : i # j => Key(files[i]) # Key(files[j])
    /\ { Key(files[i]) : i \in 1..Len(files) } = NamedByInputs


----------------------------------------------------------------------------
(* Encoder detection over every availability *)

\* the programs that may be executable: the two encoders on PATH and an
\* ffmpeg outside of PATH
Programs == { "ffmpeg", "afconvert", "/opt/ffmpeg" }

\* the values of --ffmpeg: not given, empty, an executable or not, a missing file
ExplicitPaths == { None, "", "/opt/ffmpeg", "/nope/ffmpeg" }

\* runs over two files with every set of executable programs, both values
\* of --prefer-afconvert and every --ffmpeg
DetectInit ==
  /\ args \in [inputs : { <<p_a, p_other_a>> },
               output : {NoPath},
               inplace : {FALSE},
               workers : 1..MaxWorkers,
               dry_run : {FALSE},
               overwrite : {FALSE},
               keep_artwork : {TRUE},
               prefer_afconvert : BOOLEAN,
               ffmpeg_path : ExplicitPaths,
               delete_original : {FALSE},
               verify : {TRUE}]
  /\ env \in SUBSET Programs
  /\ fs = InitialFs("absent")
  /\ mainpc = "start"
  /\ exitCode = -1
  /\ files = <<>>
  /\ input_root = NoPath
  /\ jobs = <<>>
  /\ results = <<>>
  /\ report = NoReport

DetectSpec == DetectInit /\ [][Next]_vars

\* the primary encoder is available: the explicit path when one is given,
\* else ffmpeg on PATH
PrimaryAvailable ==
  IF args.ffmpeg_path \in {None, ""}
  THEN "ffmpeg" \in env
  ELSE args.ffmpeg_path \in env

FallbackAvailable == "afconvert" \in env

\* C13: detect_converter chooses afconvert when it is preferred and
\* available, otherwise ffmpeg when available (the explicit path when given
\* and executable, and then only it), otherwise afconvert when available,
\* and otherwise fails; main then ends with 127 and every job runs the
\* encoder chosen.
C13_SelectionOrder ==
  LET primary == IF args.ffmpeg_path \in {None, ""} THEN "ffmpeg" ELSE args.ffmpeg_path
  IN  /\ detected.ok = (PrimaryAvailable \/ FallbackAvailable)
      /\ (args.prefer_afconvert /\ FallbackAvailable) =>
           detected.kind = "afconvert" /\ detected.path = "afconvert"
      /\ (~(args.prefer_afconvert /\ FallbackAvailable) /\ PrimaryAvailable) =>
           detected.kind = "ffmpeg" /\ detected.path = primary
      /\ (~args.prefer_afconvert /\ ~PrimaryAvailable /\ FallbackAvailable) =>
           detected.kind = "afconvert" /\ detected.path = "afconvert"
      /\ (mainpc # "start" /\ ~(PrimaryAvailable \/ FallbackAvailable)) =>
           mainpc = "exit" /\ exitCode = 127 /\ jobs = <<>>
      /\ \A j \in 1..Len(jobs) :
           Cmd(files[j], p_a).prog = detected.kind /\ Cmd(files[j], p_a).bin = detected.path

\* a job has run afconvert although ffmpeg is on PATH, the explicit ffmpeg
\* path given not being executable
C13_Witness ==
  /\ args.ffmpeg_path = "/nope/ffmpeg"
  /\ ~args.prefer_afconvert
  /\ env = { "ffmpeg", "afconvert" }
  /\ detected.kind = "afconvert"
  /\ \E j \in 1..Len(jobs) : "backend" \in jobs[j].ev


\* nothing was done: no file collected, no job, no result, no report line,
\* the filesystem as it was found
NoWorkDone ==
  /\ files = <<>>
  /\ jobs = <<>>
  /\ results = <<>>
  /\ report = NoReport
  /\ fs \in { InitialFs(d) : d \in DstStates }

\* C14: a run given both --inplace and --output ends with status 2 and a
\* run that finds no encoder ends with status 127, in both cases before any
\* file is collected, any job started, any subprocess run or any file or
\* directory created or deleted.
C14_FatalStartup ==
  LET conflict == args.inplace /\ args.output # NoPath
      noEncoder == ~(PrimaryAvailable \/ FallbackAvailable)
  IN  /\ (mainpc # "start" /\ conflict) =>
           mainpc = "exit" /\ exitCode = 2 /\ NoWorkDone
      /\ (mainpc # "start" /\ ~conflict /\ noEncoder) =>
           mainpc = "exit" /\ exitCode = 127 /\ NoWorkDone
      /\ mainpc = "start" => NoWorkDone

\* a run with files to convert has ended with 127, no encoder being found
C14_Witness ==
  /\ mainpc = "exit"
  /\ exitCode = 127
  /\ env = {}
  /\ gather_inputs(fs, args.inputs) # <<>>
  /\ NoWorkDone


----------------------------------------------------------------------------
(* Runs over more files than workers *)

p_b == Rel(<<"music", "sub", "b.flac">>)

\* runs over three files given one by one, with ffmpeg and verification
PoolInit ==
  /\ args \in [inputs : { <<p_a, p_b, p_other_a>> },
               output : {NoPath},
               inplace : {FALSE},
               workers : 1..MaxWorkers,
               dry_run : {FALSE},
               overwrite : {FALSE},
               keep_artwork : {TRUE},
               prefer_afconvert : {FALSE},
               ffmpeg_path : {None},
               delete_original : {FALSE},
               verify : {TRUE}]
  /\ env = { "ffmpeg", "afconvert" }
  /\ fs = InitialFs("absent")
  /\ mainpc = "start"
  /\ exitCode = -1
  /\ files = <<>>
  /\ input_root = NoPath
  /\ jobs = <<>>
  /\ results = <<>>
  /\ report = NoReport

PoolSpec == PoolInit /\ [][Next]_vars

\* C15: with one worker a job is started only when every job before it in
\* the collected list has ended, so at most one is running; with n > 1
\* workers at most n jobs are running at any time.
C15_WorkerBound ==
  /\ opts.workers = 1 =>
       /\ \A i, j \in 1..Len(jobs) :
            (i < j /\ jobs[j].pc # "queued") => Ended(jobs[i])
       /\ Cardinality(Running) <= 1
  /\ Cardinality(Running) <= opts.workers

\* two workers are both inside convert_one while a third file waits
C15_Witness ==
  /\ opts.workers = 2
  /\ Cardinality(Running) = 2
  /\ \E j \in 1..Len(jobs) : jobs[j].pc = "queued"


\* job j is about to run the encoder on a decodable source, without
\* overwrite, its destination existing and older than the source
StaleAtBackend(j) ==
  /\ jobs[j].pc = "backend"
  /\ ~opts.overwrite
  /\ is_file(fs, files[j])
  /\ fs.files[Key(files[j])].pcm # "bad"
  /\ is_file(fs, jobs[j].dst[1])
  /\ fs.files[Key(jobs[j].dst[1])].mtime < fs.files[Key(files[j])].mtime

\* C16: without overwrite, a destination older than its source is
\* converted again: the encoder is run and, the source being encodable, it
\* can exit 0 having replaced the destination by the fresh conversion, with
\* ffmpeg as with afconvert.
C16_StaleReplaced ==
  \A j \in 1..Len(jobs) :
    StaleAtBackend(j) =>
      \E out \in encode(fs, Cmd(files[j], jobs[j].dst[1])) :
        /\ out.rc = "zero"
        /\ out.fs.files[Key(jobs[j].dst[1])] =
             File(Now, 1, fs.files[Key(files[j])].pcm)


\* C17: a job started with afconvert, overwrite requested and its
\* destination existing either deletes the destination and only then goes on
\* to run afconvert, or, the deletion failing, ends in failure with the
\* deletion error as its message, without afconvert being run.
C17_DeleteBeforeAfconvert ==
  [][\A j \in 1..Len(jobs) :
       LET plan == compute_output_path(files[j], opts, input_root)
       IN  ( /\ jobs[j].pc = "queued"
             /\ jobs'[j].pc # "queued"
             /\ detected.kind = "afconvert"
             /\ opts.overwrite
             /\ ~opts.dry_run
             /\ plan.ok
             /\ is_file(fs, plan.path) )
           => \/ /\ jobs'[j].pc = "backend"
                 /\ "unlink_dst" \in jobs'[j].ev
                 /\ "backend" \notin jobs'[j].ev
                 /\ ~is_file(fs', plan.path)
              \/ /\ jobs'[j].pc \in {"returned", "collected"}
                 /\ ~jobs'[j].success
                 /\ jobs'[j].msg = msg_unlink_failed
                 /\ Status(Result(j, jobs'[j])) = "FAIL"
                 /\ "backend" \notin jobs'[j].ev
                 /\ fs' = fs]_vars

\* with afconvert and overwrite, one job has failed on the deletion of its
\* destination and another has deleted its destination and run afconvert
C17_Witness ==
  /\ detected.kind = "afconvert"
  /\ opts.overwrite
  /\ \E j \in 1..Len(jobs) :
       /\ Ended(jobs[j])
       /\ jobs[j].msg = msg_unlink_failed
       /\ "backend" \notin jobs[j].ev
  /\ \E j \in 1..Len(jobs) :
       {"unlink_dst", "backend"} \subseteq jobs[j].ev


\* main has left the dispatch and the process has ended
Stopped == mainpc \in {"exit", "crashed"}

\* while jobs are dispatched something can happen next: a subprocess is
\* running (and exits), a queued call can start, a finished future can be
\* collected, the report can be printed, or the drained pool can be left
CanStep ==
  \/ Running # {}
  \/ \E j \in 1..Len(jobs) :
       /\ jobs[j].pc = "queued"
       /\ \A i \in 1..(j - 1) : jobs[i].pc # "queued"
       /\ may_start(j)
  \/ /\ mainpc = "dispatch"
     /\ opts.workers > 1
     /\ \E j \in 1..Len(jobs) : jobs[j].pc \in {"returned", "raised"}
  \/ mainpc = "dispatch" /\ Len(results) = Len(files)
  \/ mainpc = "drain" /\ \A j \in 1..Len(jobs) : Ended(jobs[j])

\* C18: the subprocesses exiting, a run never stalls and it stops only by
\* returning from main: every job has then reached a terminal state and been
\* collected, the summary has been printed and an exit status returned.
C18_Termination ==
  /\ mainpc \in {"dispatch", "drain"} => CanStep
  /\ (Stopped /\ jobs # <<>>) =>
       /\ mainpc = "exit"
       /\ exitCode \in {0, 1}
       /\ \A j \in 1..Len(jobs) : jobs[j].pc = "collected"
       /\ Len(report.lines) = Len(files)


\* C19: a job that, overwrite not requested, ends in failure after its
\* encoder exited nonzero or its verification failed leaves no destination
\* that should_skip accepts: run again on the unchanged source, it would
\* not return the skip result.  (Stated for the jobs no deletion was
\* refused to.)
C19_NoSkipAfterFailure ==
  [][\A j \in 1..Len(jobs) :
       ( /\ ~opts.overwrite
         /\ ~Ended(jobs[j])
         /\ jobs'[j].pc \in {"returned", "collected"}
         /\ ~jobs'[j].success
         /\ jobs'[j].ev \cap {"backend_nonzero", "decode_src", "decode_dst"} # {}
         /\ "denied_dst" \notin jobs'[j].ev )
       => ~ ( /\ is_file(fs', jobs'[j].dst[1])
              /\ is_file(fs', files[j])
              /\ fs'.files[Key(jobs'[j].dst[1])].mtime >= fs'.files[Key(files[j])].mtime )]_vars


\* C20: in in-place mode and with a single directory as the input, no file
\* is dispatched twice and no two jobs of a run have the same destination.
C20_DistinctDestinations ==
  (opts.inplace \/ MirrorMode) =>
    \A i, j \in 1..Len(jobs) :
      i # j =>
        /\ Key(files[i]) # Key(files[j])
        /\ (jobs[i].dst # NoPath /\ jobs[j].dst # NoPath) =>
             Key(jobs[i].dst[1]) # Key(jobs[j].dst[1])

====
